---- MODULE Spec2Model ----
(***************************************************************************)
(* ProMoAI: the Streamlit session controller (src/app.py) and the model    *)
(* generation adapter (src/promoai.py).                                     *)
(*                                                                          *)
(* Texts that the code inspects (LLM replies, BPMN XML, file paths) are     *)
(* sequences of tokens; the text is the concatenation of its tokens.  The   *)
(* tokens are chosen so that every occurrence of a code fence, of an xml    *)
(* code fence and of the XML declaration prefix in the concatenation lies   *)
(* on token boundaries, which makes str.split, the in operator,             *)
(* str.startswith and str.strip on the text agree with                      *)
(* the operators below on the token sequence.  Free texts that the code     *)
(* only tests for emptiness and passes on are plain strings.                *)
(***************************************************************************)
EXTENDS Naturals, Sequences, FiniteSets, TLC

VARIABLES env, session_state, temp_files, last,
          xml_text, cleaned, recleaned, file_path, analysis,
          adapter, ai_response

vars == <<env, session_state, temp_files, last,
          xml_text, cleaned, recleaned, file_path, analysis,
          adapter, ai_response>>

(***************************************************************************)
(* Bounds                                                                   *)
(***************************************************************************)
\* longest reply text handed to _clean_xml_response (tokens)
MaxLen == 5
\* longest feedback history a session builds up
MaxHistory == 2
\* longest file path handed to analyze_event_log (tokens)
MaxPath == 3

(***************************************************************************)
(* Python values                                                            *)
(***************************************************************************)
\* None is the empty option, Some(x) a present value
None == <<>>
Some(x) == <<x>>

\* the tokens of reply texts; Fence stands for the three backquotes of a
\* markdown code fence, which a TLA+ string cannot hold
Fence == "[fence]"
Alphabet == {Fence, "xml", "<?", " ", "a"}
Whitespace == {" ", "\n", "\t", "\r"}

RECURSIVE TextsUpTo(_)
TextsUpTo(n) ==
    IF n = 0 THEN {<<>>}
    ELSE LET shorter == TextsUpTo(n - 1)
         IN  shorter \cup {Append(t, c) : t \in shorter, c \in Alphabet}

\* pat occurs in s at position i
OccursAt(s, pat, i) ==
    /\ i >= 1
    /\ i + Len(pat) - 1 <= Len(s)
    /\ \A k \in 1..Len(pat) : s[i + k - 1] = pat[k]

\* str.find, 1-based; 0 when pat does not occur
Find(s, pat) ==
    IF \E i \in 1..Len(s) : OccursAt(s, pat, i)
    THEN CHOOSE i \in 1..Len(s) :
            /\ OccursAt(s, pat, i)
            /\ \A j \in 1..(i - 1) : ~OccursAt(s, pat, j)
    ELSE 0

\* the in operator on texts, for a non-empty pat
Contains(s, pat) == Find(s, pat) # 0

\* str.split(sep): the pieces between the non-overlapping occurrences of sep,
\* found left to right
RECURSIVE Split(_, _)
Split(s, sep) ==
    LET i == Find(s, sep)
    IN  IF i = 0 THEN <<s>>
        ELSE <<SubSeq(s, 1, i - 1)>> \o Split(SubSeq(s, i + Len(sep), Len(s)), sep)

\* str.startswith
StartsWith(s, pat) == OccursAt(s, pat, 1)

\* str.endswith
EndsWith(s, pat) == Len(pat) <= Len(s) /\ OccursAt(s, pat, Len(s) - Len(pat) + 1)

RECURSIVE LStrip(_)
LStrip(s) == IF s # <<>> /\ Head(s) \in Whitespace THEN LStrip(Tail(s)) ELSE s

RECURSIVE RStrip(_)
RStrip(s) ==
    IF s # <<>> /\ s[Len(s)] \in Whitespace THEN RStrip(SubSeq(s, 1, Len(s) - 1)) ELSE s

\* str.strip
Strip(s) == RStrip(LStrip(s))

(***************************************************************************)
(* ProMoAI._clean_xml_response                                              *)
(***************************************************************************)
XmlFence == <<Fence, "xml">>
PlainFence == <<Fence>>
XmlPrefix == <<"<?", "xml">>
\* the canonical XML declaration and the newline after it: line 206
XmlDeclaration == <<"<?", "xml", " version=\"1.0\" encoding=\"UTF-8\"?>", "\n">>

\* the fence branch: lines 196-199
RemoveCodeBlocksPlainFirst(t) ==
    IF Contains(t, PlainFence)
    THEN LET k == Find(t, PlainFence)
             open == IF OccursAt(t, XmlFence, k) THEN XmlFence ELSE PlainFence
         IN  Split(Split(t, open)[2], PlainFence)[1]
    ELSE t

RemoveCodeBlocks(t) ==
    IF Contains(t, XmlFence)
    THEN Split(Split(t, XmlFence)[2], PlainFence)[1]
    ELSE IF Contains(t, PlainFence)
    THEN Split(Split(t, PlainFence)[2], PlainFence)[1]
    ELSE t

\* the declaration branch: lines 205-206
EnsureDeclarationAlways(t) == XmlDeclaration \o t

EnsureDeclaration(t) ==
    IF ~StartsWith(t, XmlPrefix) THEN XmlDeclaration \o t ELSE t

\* the trimming: line 202
StripNothing(t) == t

StripText(t) == Strip(t)

\* _clean_xml_response: lines 193-208
clean_xml_response_redeclares(t) == XmlDeclaration \o StripText(RemoveCodeBlocks(t))

clean_xml_response(t) == EnsureDeclaration(StripText(RemoveCodeBlocks(t)))

(***************************************************************************)
(* Environment and configuration                                            *)
(***************************************************************************)
AUTH_USERNAME == "admin"
AUTH_PASSWORD == "changeme"

\* the providers get_api_keys and _initialize_client know
Providers == {"OpenAI", "Anthropic", "Google", "Cohere"}

\* the model choices the sidebar offers for a provider
ModelOptions(provider) ==
    CASE provider = "OpenAI"    -> {"gpt-4o", "gpt-4", "gpt-4-turbo", "gpt-3.5-turbo"}
      [] provider = "Anthropic" -> {"claude-sonnet-4-20250514"}
      [] provider = "Google"    -> {"gemini-pro", "gemini-pro-vision"}
      [] provider = "Cohere"    -> {"command", "command-light"}
      [] OTHER                  -> {"gpt-4"}

\* the first entry of model_options, which the selectbox shows selected
DefaultModel(provider) ==
    CASE provider = "OpenAI"    -> "gpt-4o"
      [] provider = "Anthropic" -> "claude-sonnet-4-20250514"
      [] provider = "Google"    -> "gemini-pro"
      [] provider = "Cohere"    -> "command"
      [] OTHER                  -> "gpt-4"

\* the process environments: whether the gate is on, the providers whose API
\* key is set, the vendor libraries promoai could import, whether app.py's
\* own imports succeed, and whether promoai's pm4py import block succeeded
Environments ==
    [ENABLE_AUTH : BOOLEAN,
     api_keys    : SUBSET Providers,
     libs        : SUBSET Providers,
     import_ok   : BOOLEAN,
     pm4py       : BOOLEAN]

\* the environments the sessions are explored in: no key at all or keys for
\* two providers, of which the first has no library installed
SessionEnvironments ==
    {e \in Environments :
        /\ e.api_keys \in {{}, {"OpenAI", "Google"}}
        /\ e.libs = {"Anthropic", "Google", "Cohere"}}

\* get_api_keys: the providers that have a key
get_api_keys == env.api_keys

(***************************************************************************)
(* Session state                                                            *)
(***************************************************************************)
EmptySession == [k \in {} |-> TRUE]

Put(ss, k, v) == (k :> v) @@ ss

SetDefault(ss, k, v) == IF k \in DOMAIN ss THEN ss ELSE Put(ss, k, v)

\* check_password's return value: the key is present
check_password(ss) == "password_correct" \in DOMAIN ss

\* the gate of main, line 60
GateAlwaysOpen(ss) == TRUE

PassesGate(ss) == ~(env.ENABLE_AUTH /\ ~check_password(ss))

\* how far a run of main gets before the interface: lines 59-77
Reached(ss) ==
    IF ~PassesGate(ss) THEN "login"
    ELSE IF get_api_keys = {} THEN "no_keys"
    ELSE IF ~env.import_ok THEN "import_error"
    ELSE "main"

GateMessages(reached) ==
    CASE reached = "no_keys"      -> {"error: Keine API Keys konfiguriert"}
      [] reached = "import_error" -> {"error: Fehler beim Import"}
      [] OTHER                    -> {}

\* lines 79-85
InitSessionState(ss) ==
    SetDefault(SetDefault(SetDefault(ss, "model_gen", None),
                          "feedback_history", <<>>),
               "current_bpmn", None)

\* truth value of an optional text: None and the empty text are false
Truthy(opt) == opt # None /\ opt[1] # <<>>

\* the login form's submit branch, lines 25-30
SubmitLoginNameOnly(ss, username, password) ==
    IF username = AUTH_USERNAME
    THEN Put(ss, "password_correct", TRUE)
    ELSE ss

SubmitLogin(ss, username, password) ==
    IF username = AUTH_USERNAME /\ password = AUTH_PASSWORD
    THEN Put(ss, "password_correct", TRUE)
    ELSE ss

\* the reset button, lines 136-138
ResetSession(ss) ==
    [ss EXCEPT !["model_gen"] = None,
               !["feedback_history"] = <<>>,
               !["current_bpmn"] = None]

\* lines 179-181
GenerateSucceededKeepModel(ss, promoai, result, custom_instructions) ==
    Put([ss EXCEPT !["current_bpmn"] =
                       IF @ = None THEN Some(result.bpmn_xml) ELSE @,
                   !["model_gen"] = Some(promoai)],
        "custom_instructions", custom_instructions)

GenerateSucceeded(ss, promoai, result, custom_instructions) ==
    Put([ss EXCEPT !["current_bpmn"] = Some(result.bpmn_xml),
                   !["model_gen"] = Some(promoai)],
        "custom_instructions", custom_instructions)

\* lines 253-255
ImproveSucceededPrepend(ss, promoai, result, improvement_request) ==
    [ss EXCEPT !["current_bpmn"] = Some(result.bpmn_xml),
               !["model_gen"] = Some(promoai),
               !["feedback_history"] = <<improvement_request>> \o @]

ImproveSucceeded(ss, promoai, result, improvement_request) ==
    [ss EXCEPT !["current_bpmn"] = Some(result.bpmn_xml),
               !["model_gen"] = Some(promoai),
               !["feedback_history"] = Append(@, improvement_request)]

\* lines 287-288
RefineSucceeded(ss, result, feedback) ==
    [ss EXCEPT !["current_bpmn"] = Some(result.bpmn_xml),
               !["feedback_history"] = Append(@, feedback)]

(***************************************************************************)
(* Model generation adapter (class ProMoAI)                                 *)
(***************************************************************************)
MaxTokens == 2000
Temperature == "0.3"

\* _initialize_client returns a client instead of raising ValueError
CanInitializeClient(provider) == provider \in Providers /\ provider \in env.libs

\* the object __init__ leaves behind
ProMoAI(provider, model) ==
    [provider |-> provider, api_key |-> "key", model |-> model, client |-> provider]

\* what the vendor call can do: raise, return a text, or return a response
\* whose text field is None
ReplyTexts ==
    {<<"<?", "xml", "a">>,
     <<"a", Fence, "xml", "\n", "a", "\n", Fence>>}

VendorOutcomes ==
    {[kind |-> "raises", text |-> <<>>], [kind |-> "no_text", text |-> <<>>]}
        \cup {[kind |-> "text", text |-> t] : t \in ReplyTexts}

\* the keyword arguments of the vendor call in each branch of
\* _get_ai_response
VendorCall(promoai) ==
    CASE promoai.provider = "OpenAI" ->
            [provider |-> "OpenAI", model |-> Some(promoai.model),
             temperature |-> Some(Temperature), max_tokens |-> Some(MaxTokens)]
      [] promoai.provider = "Anthropic" ->
            [provider |-> "Anthropic", model |-> Some(promoai.model),
             temperature |-> Some(Temperature), max_tokens |-> Some(MaxTokens)]
      [] promoai.provider = "Google" ->
            [provider |-> "Google", model |-> None,
             temperature |-> None, max_tokens |-> None]
      [] promoai.provider = "Cohere" ->
            [provider |-> "Cohere", model |-> Some(promoai.model),
             temperature |-> Some(Temperature), max_tokens |-> Some(MaxTokens)]

\* _get_ai_response: the response (None when the vendor's text field is
\* None), the call made and the messages shown
get_ai_response_reraise(promoai, outcome) ==
    IF promoai.provider \in Providers /\ promoai.provider \in env.libs
    THEN [response |-> IF outcome.kind = "text" THEN Some(outcome.text) ELSE None,
          call     |-> Some(VendorCall(promoai)),
          messages |-> {}]
    ELSE [response |-> Some(<<"Provider not properly configured">>),
          call     |-> None,
          messages |-> {}]

get_ai_response(promoai, outcome) ==
    IF promoai.provider \in Providers /\ promoai.provider \in env.libs
    THEN IF outcome.kind = "raises"
         THEN [response |-> Some(<<>>),
               call     |-> Some(VendorCall(promoai)),
               messages |-> {"error: Error getting AI response"}]
         ELSE [response |-> IF outcome.kind = "text" THEN Some(outcome.text) ELSE None,
               call     |-> Some(VendorCall(promoai)),
               messages |-> {}]
    ELSE [response |-> Some(<<"Provider not properly configured">>),
          call     |-> None,
          messages |-> {}]

\* the prompt generate_bpmn_from_text builds: the template around the
\* description, and the custom instructions when they are not empty
BuildPrompt(description, custom_instructions) ==
    [description  |-> description,
     instructions |-> IF custom_instructions # "" THEN Some(custom_instructions) ELSE None]

\* generate_bpmn_from_text: the result dictionary, or raised when
\* _clean_xml_response is handed None (the in operator raises TypeError)
generate_bpmn_from_text(promoai, description, custom_instructions, outcome) ==
    LET r == get_ai_response(promoai, outcome)
    IN  IF r.response = None
        THEN [raised |-> TRUE, result |-> None, call |-> r.call,
              vendor |-> IF r.call = None THEN "none" ELSE outcome.kind,
              prompt |-> Some(BuildPrompt(description, custom_instructions)),
              messages |-> r.messages]
        ELSE [raised |-> FALSE,
              result |-> Some([bpmn_xml |-> clean_xml_response(r.response[1]),
                               status   |-> "success",
                               message  |-> "BPMN model generated successfully"]),
              call |-> r.call,
              vendor |-> IF r.call = None THEN "none" ELSE outcome.kind,
              prompt |-> Some(BuildPrompt(description, custom_instructions)),
              messages |-> r.messages]

\* what the pm4py calls of the diagram tab can do
VisOutcomes == {"read_raises", "save_raises", "ok"}

\* visualize_bpmn, lines 210-232: whether a graph comes back, the temporary
\* files left behind, the messages
visualize_bpmn(bpmn_xml, vis) ==
    IF ~env.pm4py
    THEN [graph |-> FALSE, files |-> {},
          messages |-> {"error: pm4py library not installed"}]
    ELSE IF vis = "read_raises"
    THEN [graph |-> FALSE, files |-> {"bpmn"},
          messages |-> {"error: Error visualizing BPMN"}]
    ELSE [graph |-> TRUE, files |-> {}, messages |-> {}]

\* the diagram tab of the second column, lines 303-322 and 365-366
ShowDiagram(ss, vis) ==
    IF Truthy(ss["current_bpmn"])
    THEN IF ss["model_gen"] # None
         THEN LET v == visualize_bpmn(ss["current_bpmn"][1], vis)
              IN  IF v.graph
                  THEN IF vis = "save_raises"
                       THEN [files |-> v.files \cup {"png"},
                             messages |-> v.messages
                                 \cup {"warning: Visualisierung nicht verfuegbar"}]
                       ELSE [files |-> v.files, messages |-> v.messages]
                  ELSE [files |-> v.files,
                        messages |-> v.messages
                            \cup {"info: Diagramm-Visualisierung wird vorbereitet"}]
         ELSE [files |-> {}, messages |-> {}]
    ELSE [files |-> {}, messages |-> {"info: Eingabemethode waehlen"}]

\* the diagram tab calls pm4py for this session state
DrawsDiagram(ss) ==
    /\ "current_bpmn" \in DOMAIN ss
    /\ Truthy(ss["current_bpmn"])
    /\ ss["model_gen"] # None
    /\ env.pm4py

\* an outcome is drawn for a library or vendor call only in the runs that
\* make the call; the other runs carry the default
OutcomeOf(called, outcome, default) == called \/ outcome = default

NoVendorCall == [kind |-> "raises", text |-> <<>>]

\* a run of main in which no button is pressed
NoEventRun(ss, vis) ==
    LET reached == Reached(ss)
    IN  IF reached # "main"
        THEN [ss |-> ss, files |-> {}, messages |-> GateMessages(reached),
              reached |-> reached]
        ELSE LET s0 == InitSessionState(ss)
                 d  == ShowDiagram(s0, vis)
             IN  [ss |-> s0, files |-> d.files, messages |-> d.messages,
                  reached |-> "main"]

(***************************************************************************)
(* analyze_event_log                                                        *)
(***************************************************************************)
PathAlphabet == {"log", ".xes", ".csv", ".gz", ".txt", "xes"}

RECURSIVE PathsUpTo(_)
PathsUpTo(n) ==
    IF n = 0 THEN {<<>>}
    ELSE LET shorter == PathsUpTo(n - 1)
         IN  shorter \cup {Append(t, c) : t \in shorter, c \in PathAlphabet}

\* what the pm4py calls of analyze_event_log can do
LibOutcomes == {"read_raises", "discover_raises", "convert_raises", "ok"}

AnalysisError(message, calls) ==
    [status |-> "error", message |-> message, calls |-> calls]

\* the reader the extension selects, lines 249-257; None when unsupported
SelectReaderAnySuffix(path) ==
    IF EndsWith(path, <<".xes">>) THEN Some("read_xes")
    ELSE IF EndsWith(path, <<".csv">>) THEN Some("read_csv")
    ELSE Some("read_xes")

SelectReader(path) ==
    IF EndsWith(path, <<".xes">>) THEN Some("read_xes")
    ELSE IF EndsWith(path, <<".csv">>) THEN Some("read_csv")
    ELSE None

\* analyze_event_log: the status, the message and the pm4py calls made
analyze_event_log(path, lib) ==
    IF ~env.pm4py
    THEN AnalysisError("pm4py library not installed", <<>>)
    ELSE LET reader == SelectReader(path)
         IN  IF reader = None
             THEN AnalysisError("Unsupported file format", <<>>)
             ELSE IF lib = "read_raises"
             THEN AnalysisError("Error analyzing event log", reader)
             ELSE IF lib = "discover_raises"
             THEN AnalysisError("Error analyzing event log",
                                reader \o <<"discover_process_tree_inductive">>)
             ELSE IF lib = "convert_raises"
             THEN AnalysisError("Error analyzing event log",
                                reader \o <<"discover_process_tree_inductive",
                                            "convert_to_bpmn">>)
             ELSE [status |-> "success",
                   message |-> "Event log analyzed successfully",
                   calls |-> reader \o <<"discover_process_tree_inductive",
                                         "convert_to_bpmn">>]

(***************************************************************************)
(* The handlers of main: one action per run of the script                   *)
(***************************************************************************)
Usernames == {AUTH_USERNAME, "guest"}
Passwords == {AUTH_PASSWORD, "secret"}
Descriptions == {"", "order process"}
Instructions == {"", "use swimlanes"}
Feedbacks == {"", "add gateway", "rename task"}
\* the contents of an uploaded model file
UploadedModels == {<<"<?", "xml", "b">>, <<"[not utf-8]">>}
\* line 241: bytes.decode returns the text instead of raising
\* UnicodeDecodeError
Decodes(model_content) == model_content # <<"[not utf-8]">>

\* lines 241-242: the decoded upload becomes the current model before the
\* adapter is constructed
ReadUploadedModelAndRecord(ss, model_content, improvement_request) ==
    [ss EXCEPT !["current_bpmn"] = Some(model_content),
               !["feedback_history"] = Append(@, improvement_request)]

ReadUploadedModel(ss, model_content, improvement_request) ==
    [ss EXCEPT !["current_bpmn"] = Some(model_content)]

\* the names the event log uploader accepts (type xes, csv, gz)
UploadedLogs == {<<"log", ".xes">>, <<"log", ".csv">>, <<"log", ".gz">>}
\* the text pm4py.write_bpmn hands back when it returns
DiscoveredXml == <<"<?", "xml", "d">>
WriteOutcomes == {"raises", "returns"}

NoGeneration ==
    [raised |-> FALSE, result |-> None, call |-> None, vendor |-> "none",
     prompt |-> None, messages |-> {}]

\* the record of the last run: what was pressed, the text typed into the
\* submitted form (followed, for an upload, by the tokens of the file), how
\* far the script got, what the vendor call did and what the adapter returned, whether the handler's except clause caught an
\* exception, and the messages the gate and the handler emitted (st.error,
\* st.warning, st.success), also those a following st.rerun redraws over
Record(action, input, reached, gen, raised, messages) ==
    [action |-> action, input |-> input, reached |-> reached,
     vendor |-> gen.vendor, result |-> gen.result, raised |-> raised,
     messages |-> messages]

History(ss) ==
    IF "feedback_history" \in DOMAIN ss THEN ss["feedback_history"] ELSE <<>>

Init ==
    /\ env \in SessionEnvironments
    /\ session_state = EmptySession
    /\ temp_files = {}
    /\ last = Record("start", <<>>, "start", NoGeneration, FALSE, {})
    /\ xml_text = <<>>
    /\ cleaned = None
    /\ recleaned = None
    /\ file_path = <<>>
    /\ analysis = None
    /\ adapter = None
    /\ ai_response = None

\* the widgets of the main interface are on the page: the last run drew them
Rendered == last.reached = "main"

Unused ==
    UNCHANGED <<env, xml_text, cleaned, recleaned, file_path, analysis,
                adapter, ai_response>>

\* the page is loaded or redrawn without a button press
PageLoad(vis) ==
    \E r \in {NoEventRun(session_state, vis)} :
        /\ OutcomeOf(DrawsDiagram(r.ss), vis, "ok")
        /\ session_state' = r.ss
        /\ temp_files' = r.files
        /\ last' = Record("load", <<>>, r.reached, NoGeneration, FALSE,
                          GateMessages(r.reached))
        /\ Unused

\* the login form is submitted; check_password, lines 14-31
Login(username, password, vis) ==
    /\ env.ENABLE_AUTH
    /\ ~check_password(session_state)
    /\ \E s1 \in {SubmitLogin(session_state, username, password)} :
          IF check_password(s1)
          THEN \* st.rerun
               \E r \in {NoEventRun(s1, vis)} :
                   /\ OutcomeOf(DrawsDiagram(r.ss), vis, "ok")
                   /\ session_state' = r.ss
                   /\ temp_files' = r.files
                   /\ last' = Record("login", <<username, password>>, r.reached,
                                     NoGeneration, FALSE, GateMessages(r.reached))
          ELSE /\ vis = "ok"
               /\ session_state' = s1
               /\ temp_files' = {}
               /\ last' = Record("login", <<username, password>>, "login",
                                 NoGeneration, FALSE,
                                 {"error: Ungueltige Anmeldedaten"})
    /\ Unused

\* the reset button, lines 135-139
Reset ==
    /\ Rendered
    /\ Reached(session_state) = "main"
    /\ \E r \in {NoEventRun(ResetSession(InitSessionState(session_state)), "ok")} :
           /\ session_state' = r.ss
           /\ temp_files' = r.files
           /\ last' = Record("reset", <<>>, r.reached, NoGeneration, FALSE, {})
    /\ Unused

\* the generate button, lines 170-186
Generate(provider, model, description, custom_instructions, outcome, vis) ==
    /\ Rendered
    /\ Reached(session_state) = "main"
    /\ provider \in get_api_keys
    /\ model \in ModelOptions(provider)
    /\ LET constructed == description # "" /\ CanInitializeClient(provider)
           promoai == ProMoAI(provider, model)
       IN  /\ OutcomeOf(constructed, outcome, NoVendorCall)
           /\ \E s0 \in {InitSessionState(session_state)},
                 gen \in {IF constructed
                          THEN generate_bpmn_from_text(promoai,
                                   [template |-> "describe", text |-> description,
                                    model |-> None],
                                   custom_instructions, outcome)
                          ELSE NoGeneration} :
                \E raised \in {description # "" /\ (~constructed \/ gen.raised)},
                   success \in {gen.result # None /\ gen.result[1].status = "success"} :
                  \E s1 \in {IF success
                             THEN GenerateSucceeded(s0, promoai, gen.result[1],
                                                    custom_instructions)
                             ELSE s0} :
                      /\ OutcomeOf(DrawsDiagram(s1), vis, "ok")
                      /\ session_state' = s1
                      /\ temp_files' = ShowDiagram(s1, vis).files
                      /\ last' = Record("generate", <<description>>, "main", gen, raised,
                             gen.messages
                             \cup (IF description = ""
                                   THEN {"warning: Bitte geben Sie eine Beschreibung ein"}
                                   ELSE {})
                             \cup (IF raised THEN {"error: Fehler"} ELSE {})
                             \cup (IF success
                                   THEN {"success: Modell erfolgreich generiert"}
                                   ELSE {}))
    /\ Unused

\* the discover button of the event log upload, lines 198-218
Discover(name, lib, write, vis) ==
    /\ Rendered
    /\ Reached(session_state) = "main"
    /\ \E s0 \in {InitSessionState(session_state)},
          \* NamedTemporaryFile(suffix=uploaded_file.name)
          temp_path \in {<<"tmp">> \o name} :
         /\ OutcomeOf(env.pm4py /\ SelectReader(temp_path) # None, lib, "ok")
         /\ \E result \in {analyze_event_log(temp_path, lib)} :
              /\ OutcomeOf(result.status = "success", write, "returns")
              /\ \E raised \in {result.status = "success" /\ write = "raises"} :
                  \E s1 \in {IF result.status = "success" /\ ~raised
                             THEN [s0 EXCEPT !["current_bpmn"] = Some(DiscoveredXml)]
                             ELSE s0} :
                      /\ OutcomeOf(DrawsDiagram(s1), vis, "ok")
                      /\ session_state' = s1
                      \* os.unlink is skipped when write_bpmn raises
                      /\ temp_files' = (IF raised THEN {"upload"} ELSE {})
                                          \cup ShowDiagram(s1, vis).files
                      /\ last' = Record("discover", name, "main", NoGeneration, raised,
                             (IF result.status = "success"
                              THEN {"success: Prozess entdeckt"}
                              ELSE {"error: " \o result.message})
                             \cup (IF raised THEN {"error: Fehler"} ELSE {}))
    /\ Unused

\* the improve button of the model upload, lines 236-260
Improve(provider, model, improvement_request, model_content, outcome, vis) ==
    /\ Rendered
    /\ Reached(session_state) = "main"
    /\ provider \in get_api_keys
    /\ model \in ModelOptions(provider)
    /\ Len(History(session_state)) < MaxHistory
    /\ LET decoded == improvement_request # "" /\ Decodes(model_content)
           constructed == decoded /\ CanInitializeClient(provider)
           promoai == ProMoAI(provider, model)
       IN  /\ OutcomeOf(constructed, outcome, NoVendorCall)
           /\ \E s0 \in {InitSessionState(session_state)},
                 gen \in {IF constructed
                          THEN generate_bpmn_from_text(promoai,
                                   [template |-> "improve", text |-> improvement_request,
                                    model |-> Some(model_content)],
                                   "", outcome)
                          ELSE NoGeneration} :
                \E raised \in {improvement_request # "" /\ (~constructed \/ gen.raised)},
                   success \in {gen.result # None /\ gen.result[1].status = "success"},
                   s1 \in {IF decoded
                           THEN ReadUploadedModel(s0, model_content, improvement_request)
                           ELSE s0} :
                  \E s2 \in {IF success
                             THEN ImproveSucceeded(s1, promoai, gen.result[1],
                                                   improvement_request)
                             ELSE s1} :
                      /\ OutcomeOf(DrawsDiagram(s2), vis, "ok")
                      /\ session_state' = s2
                      /\ temp_files' = ShowDiagram(s2, vis).files
                      /\ last' = Record("improve",
                             <<improvement_request>> \o model_content,
                             "main", gen, raised,
                             gen.messages
                             \cup (IF improvement_request = ""
                                   THEN {"warning: Bitte beschreiben Sie die Verbesserungen"}
                                   ELSE {})
                             \cup (IF raised THEN {"error: Fehler"} ELSE {})
                             \cup (IF success THEN {"success: Modell verbessert"} ELSE {}))
    /\ Unused

\* the feedback form, lines 263-292
Refine(feedback, outcome, vis) ==
    /\ Rendered
    /\ Reached(session_state) = "main"
    /\ Len(History(session_state)) < MaxHistory
    /\ \E s0 \in {InitSessionState(session_state)} :
         \* the form is on the page
         /\ Truthy(s0["current_bpmn"])
         /\ OutcomeOf(feedback # "" /\ s0["model_gen"] # None, outcome, NoVendorCall)
         /\ \E gen \in {IF feedback # "" /\ s0["model_gen"] # None
                        THEN generate_bpmn_from_text(s0["model_gen"][1],
                                 [template |-> "update", text |-> feedback,
                                  model |-> s0["current_bpmn"]],
                                 \* line 283
                                 IF "custom_instructions" \in DOMAIN s0
                                 THEN s0["custom_instructions"] ELSE "",
                                 outcome)
                        ELSE NoGeneration} :
              \E success \in {gen.result # None /\ gen.result[1].status = "success"} :
                \* st.rerun after a success: the page is drawn by the next run
                \E r \in {NoEventRun(IF success
                                     THEN RefineSucceeded(s0, gen.result[1], feedback)
                                     ELSE s0, vis)} :
                    /\ OutcomeOf(DrawsDiagram(r.ss), vis, "ok")
                    /\ session_state' = r.ss
                    /\ temp_files' = r.files
                    /\ last' = Record("refine", <<feedback>>, "main", gen, gen.raised,
                           gen.messages
                           \cup (IF gen.raised THEN {"error: Fehler"} ELSE {})
                           \cup (IF success THEN {"success: Modell aktualisiert"} ELSE {}))
    /\ Unused

Next ==
    \/ \E vis \in VisOutcomes : PageLoad(vis)
    \/ \E username \in Usernames, password \in Passwords, vis \in VisOutcomes :
          Login(username, password, vis)
    \/ Reset
    \/ \E provider \in get_api_keys, description \in Descriptions,
          custom_instructions \in Instructions, outcome \in VendorOutcomes,
          vis \in VisOutcomes :
          Generate(provider, DefaultModel(provider), description,
                   custom_instructions, outcome, vis)
    \/ \E name \in UploadedLogs, lib \in LibOutcomes, write \in WriteOutcomes,
          vis \in VisOutcomes :
          Discover(name, lib, write, vis)
    \/ \E provider \in get_api_keys, improvement_request \in Feedbacks,
          model_content \in UploadedModels, outcome \in VendorOutcomes,
          vis \in VisOutcomes :
          Improve(provider, DefaultModel(provider), improvement_request,
                  model_content, outcome, vis)
    \/ \E feedback \in Feedbacks, outcome \in VendorOutcomes, vis \in VisOutcomes :
          Refine(feedback, outcome, vis)

Spec == Init /\ [][Next]_vars

(***************************************************************************)
(* _clean_xml_response on its own: every reply text up to MaxLen tokens     *)
(***************************************************************************)
\* an environment for the specifications in which no session runs
IdleEnvironments ==
    {e \in Environments :
        ~e.ENABLE_AUTH /\ e.api_keys = {} /\ e.libs = {} /\ e.import_ok}

NoSession ==
    /\ session_state = EmptySession
    /\ temp_files = {}
    /\ last = Record("start", <<>>, "start", NoGeneration, FALSE, {})

CleanInit ==
    /\ env \in {e \in IdleEnvironments : e.pm4py}
    /\ NoSession
    /\ xml_text \in TextsUpTo(MaxLen)
    /\ cleaned = None
    /\ recleaned = None
    /\ file_path = <<>>
    /\ analysis = None
    /\ adapter = None
    /\ ai_response = None

CleanXmlResponse ==
    /\ cleaned = None
    /\ cleaned' = Some(clean_xml_response(xml_text))
    /\ UNCHANGED <<env, session_state, temp_files, last, xml_text, recleaned,
                   file_path, analysis, adapter, ai_response>>

\* the cleaned text is handed to _clean_xml_response once more
CleanAgain ==
    /\ cleaned # None
    /\ recleaned = None
    /\ recleaned' = Some(clean_xml_response(cleaned[1]))
    /\ UNCHANGED <<env, session_state, temp_files, last, xml_text, cleaned,
                   file_path, analysis, adapter, ai_response>>

CleanNext == CleanXmlResponse \/ CleanAgain

CleanSpec == CleanInit /\ [][CleanNext]_vars

(***************************************************************************)
(* analyze_event_log on its own: every path up to MaxPath tokens, with and  *)
(* without pm4py                                                            *)
(***************************************************************************)
AnalyzeInit ==
    /\ env \in IdleEnvironments
    /\ NoSession
    /\ xml_text = <<>>
    /\ cleaned = None
    /\ recleaned = None
    /\ file_path \in PathsUpTo(MaxPath)
    /\ analysis = None
    /\ adapter = None
    /\ ai_response = None

AnalyzeEventLog(lib) ==
    /\ analysis = None
    /\ analysis' = Some(analyze_event_log(file_path, lib))
    /\ UNCHANGED <<env, session_state, temp_files, last, xml_text, cleaned,
                   recleaned, file_path, adapter, ai_response>>

AnalyzeNext == \E lib \in LibOutcomes : AnalyzeEventLog(lib)

AnalyzeSpec == AnalyzeInit /\ [][AnalyzeNext]_vars

(***************************************************************************)
(* The adapter on its own: every provider string and every set of           *)
(* installed vendor libraries                                               *)
(***************************************************************************)
\* the provider strings an adapter is constructed with: the four known ones
\* and one that _initialize_client does not know
ProviderStrings == Providers \cup {"Mistral"}

AdapterInit ==
    /\ env \in {e \in Environments :
                  ~e.ENABLE_AUTH /\ e.api_keys = {} /\ e.import_ok /\ e.pm4py}
    /\ NoSession
    /\ xml_text = <<>>
    /\ cleaned = None
    /\ recleaned = None
    /\ file_path = <<>>
    /\ analysis = None
    /\ adapter = None
    /\ ai_response = None

\* ProMoAI(provider, api_key, model): the object, unless _initialize_client
\* raises ValueError
Construct(provider, model) ==
    /\ adapter = None
    /\ CanInitializeClient(provider)
    /\ adapter' = Some(ProMoAI(provider, model))
    /\ UNCHANGED <<env, session_state, temp_files, last, xml_text, cleaned,
                   recleaned, file_path, analysis, ai_response>>

\* a response is requested from the constructed adapter
GetAiResponse(outcome) ==
    /\ adapter # None
    /\ ai_response' = Some(get_ai_response(adapter[1], outcome))
    /\ UNCHANGED <<env, session_state, temp_files, last, xml_text, cleaned,
                   recleaned, file_path, analysis, adapter>>

AdapterNext ==
    \/ \E provider \in ProviderStrings : \E model \in ModelOptions(provider) :
          Construct(provider, model)
    \/ \E outcome \in VendorOutcomes : GetAiResponse(outcome)

AdapterSpec == AdapterInit /\ [][AdapterNext]_vars

(***************************************************************************)
(* Properties of _clean_xml_response (CleanSpec)                            *)
(***************************************************************************)
\* the text from position start up to the next fence, or up to the end of
\* the text when no fence follows
UpToNextFence(t, start) ==
    LET rest  == SubSeq(t, start, Len(t))
        close == Find(rest, PlainFence)
    IN  IF close = 0 THEN rest ELSE SubSeq(rest, 1, close - 1)

\* the contents of the first fenced block of the reply, whichever of the two
\* fences opens it
FirstBlockContents(t) ==
    LET k == Find(t, PlainFence)
    IN  IF OccursAt(t, XmlFence, k)
        THEN UpToNextFence(t, k + Len(XmlFence))
        ELSE UpToNextFence(t, k + Len(PlainFence))

\* the contents of the first block opened by an xml fence when the reply has
\* an xml fence, and of the first block opened by a plain fence otherwise
PreferredBlockContents(t) ==
    IF Contains(t, XmlFence)
    THEN UpToNextFence(t, Find(t, XmlFence) + Len(XmlFence))
    ELSE UpToNextFence(t, Find(t, PlainFence) + Len(PlainFence))

\* whitespace trimmed, and the declaration put in front when it is missing
Normalised(t) ==
    IF StartsWith(Strip(t), XmlPrefix) THEN Strip(t) ELSE XmlDeclaration \o Strip(t)

\* C7 as stated: for a reply with a fenced block the result is the
\* normalised contents of the first fenced block of the reply
C7_FirstBlockExtracted ==
    (cleaned # None /\ Contains(xml_text, PlainFence))
        => cleaned[1] = Normalised(FirstBlockContents(xml_text))

\* C7 amended: for a reply with a fenced block the result is the normalised
\* contents of the first block opened by an xml fence if the reply contains
\* an xml fence anywhere, and of the first fenced block otherwise; the
\* contents end at the next fence or at the end of the reply
C7_PreferredBlockExtracted ==
    (cleaned # None /\ Contains(xml_text, PlainFence))
        => cleaned[1] = Normalised(PreferredBlockContents(xml_text))

\* a plain block comes before an xml fence and the later block was extracted
C7_Witness ==
    /\ cleaned # None
    /\ Contains(xml_text, XmlFence)
    /\ Find(xml_text, PlainFence) < Find(xml_text, XmlFence)
    /\ FirstBlockContents(xml_text) = <<"a">>
    /\ cleaned[1] = XmlDeclaration \o <<"xml">>

\* C8 as stated: for a reply without fence and without declaration the
\* result is the declaration, a newline and the original text
C8_DeclarationPrepended ==
    (/\ cleaned # None
     /\ ~Contains(xml_text, PlainFence)
     /\ ~Contains(xml_text, XmlPrefix))
        => cleaned[1] = XmlDeclaration \o xml_text

\* C8 amended: for a reply without fence and without declaration the result
\* is the declaration, a newline and the original text with its leading and
\* trailing whitespace removed
C8_DeclarationPrependedToTrimmed ==
    (/\ cleaned # None
     /\ ~Contains(xml_text, PlainFence)
     /\ ~Contains(xml_text, XmlPrefix))
        => cleaned[1] = XmlDeclaration \o Strip(xml_text)

\* a reply with whitespace around its text got the declaration
C8_Witness ==
    /\ cleaned # None
    /\ xml_text = <<" ", "a", "xml", " ">>
    /\ cleaned[1] = XmlDeclaration \o <<"a", "xml">>

\* C9 as stated: for a reply that starts with the declaration prefix the
\* result is the reply with leading and trailing whitespace removed
C9_DeclaredReplyOnlyTrimmed ==
    (cleaned # None /\ StartsWith(xml_text, XmlPrefix))
        => cleaned[1] = Strip(xml_text)

\* C9 amended: for a reply that starts with the declaration prefix and
\* contains no fence the result is the reply with leading and trailing
\* whitespace removed
C9_DeclaredUnfencedReplyOnlyTrimmed ==
    (/\ cleaned # None
     /\ StartsWith(xml_text, XmlPrefix)
     /\ ~Contains(xml_text, PlainFence))
        => cleaned[1] = Strip(xml_text)

\* a declared reply with trailing whitespace was trimmed and nothing else
C9_Witness ==
    /\ cleaned # None
    /\ xml_text = <<"<?", "xml", "a", " ", " ">>
    /\ cleaned[1] = <<"<?", "xml", "a">>

(***************************************************************************)
(* Properties of analyze_event_log (AnalyzeSpec)                            *)
(***************************************************************************)
UnsupportedExtension(path) ==
    ~EndsWith(path, <<".xes">>) /\ ~EndsWith(path, <<".csv">>)

Succeeded == last.result # None /\ last.result[1].status = "success"

\* C1: the session has one current model slot, and after a generation,
\* improvement or refinement that succeeded the current model is exactly the
\* bpmn_xml of that action's result
C1_CurrentModelIsLastResult ==
    /\ "current_bpmn" \in DOMAIN session_state => Len(session_state["current_bpmn"]) <= 1
    /\ (last.action \in {"generate", "improve", "refine"} /\ Succeeded)
          => session_state["current_bpmn"] = Some(last.result[1].bpmn_xml)

\* a refinement replaced a model by the declared text of the reply
C1_Witness ==
    /\ last.action = "refine"
    /\ Succeeded
    /\ last.vendor = "text"
    /\ History(session_state) # <<>>
    /\ session_state["current_bpmn"] = Some(<<"<?", "xml", "a">>)

\* C2: every step leaves the feedback history unchanged, or is an
\* improvement or refinement that appends the submitted feedback at its end,
\* or is a reset, which empties it
C2_HistoryGrowsMonotonically ==
    [][\/ History(session_state') = History(session_state)
       \/ /\ last'.action \in {"improve", "refine"}
          /\ History(session_state') = Append(History(session_state), last'.input[1])
       \/ /\ last'.action = "reset"
          /\ History(session_state') = <<>>]_vars

\* two different feedback texts are in the history in the order given
C2_Witness ==
    /\ last.action = "refine"
    /\ History(session_state) = <<"add gateway", "rename task">>

\* C3: after a reset the session is the freshly initialised one, apart from
\* the authentication
C3_ResetReturnsToEmpty ==
    last.action = "reset"
        => /\ DOMAIN session_state \ {"password_correct"}
                 = {"model_gen", "feedback_history", "current_bpmn"}
           /\ session_state["model_gen"] = None
           /\ session_state["feedback_history"] = <<>>
           /\ session_state["current_bpmn"] = None

\* C4 as stated: when the vendor call raised, the handler saw no exception,
\* the error is on the page and the result is a success with an empty
\* bpmn_xml
C4_VendorErrorGivesEmptySuccess ==
    last.vendor = "raises"
        => /\ ~last.raised
           /\ "error: Error getting AI response" \in last.messages
           /\ last.result # None
           /\ last.result[1].status = "success"
           /\ last.result[1].bpmn_xml = <<>>

\* C4 amended: when the vendor call raised, the handler saw no exception,
\* the error is on the page and the result is a success whose bpmn_xml is
\* the XML declaration and its newline, with no model content
C4_VendorErrorGivesDeclarationOnlySuccess ==
    last.vendor = "raises"
        => /\ ~last.raised
           /\ "error: Error getting AI response" \in last.messages
           /\ last.result # None
           /\ last.result[1].status = "success"
           /\ last.result[1].bpmn_xml = XmlDeclaration

\* a generation whose vendor call raised became the current model
C4_Witness ==
    /\ last.action = "generate"
    /\ last.vendor = "raises"
    /\ session_state["current_bpmn"] = Some(XmlDeclaration)

\* C5: the login form is processed only while the session is not
\* authenticated; the configured pair authenticates it, any other pair
\* leaves it unauthenticated with an error message; an authenticated session
\* stays authenticated
C5_LoginAuthenticatesOnce ==
    [][/\ last'.action = "login"
          => /\ env.ENABLE_AUTH
             /\ "password_correct" \notin DOMAIN session_state
             /\ IF last'.input = <<AUTH_USERNAME, AUTH_PASSWORD>>
                THEN "password_correct" \in DOMAIN session_state'
                ELSE /\ "password_correct" \notin DOMAIN session_state'
                     /\ "error: Ungueltige Anmeldedaten" \in last'.messages
       /\ "password_correct" \in DOMAIN session_state
          => "password_correct" \in DOMAIN session_state'
       /\ ("password_correct" \in DOMAIN session_state'
           /\ "password_correct" \notin DOMAIN session_state)
          => last'.action = "login"]_vars

\* the configured pair was submitted and the session is authenticated
C5_Witness ==
    /\ last.action = "login"
    /\ last.input = <<AUTH_USERNAME, AUTH_PASSWORD>>
    /\ "password_correct" \in DOMAIN session_state
    /\ last.reached = "main"

Authorised == ~env.ENABLE_AUTH \/ "password_correct" \in DOMAIN session_state

MainActions == {"generate", "discover", "improve", "refine", "reset"}

\* C6 as stated: a run gets to the main interface exactly if the gate is off
\* or the session is authenticated
C6_MainInterfaceIffAuthorised ==
    last.action # "start" => (last.reached = "main" <=> Authorised)

\* C6 amended: a run gets to the main interface, and a main action or the
\* session-state initialisation happens, only if the gate is off or the
\* session is authenticated; and it does get there exactly if moreover an
\* API key is configured and the imports of main succeed
C6_MainInterfaceGated ==
    /\ (last.action \in MainActions \/ DOMAIN session_state \ {"password_correct"} # {})
          => Authorised
    /\ last.action # "start"
          => (last.reached = "main"
                <=> (Authorised /\ env.api_keys # {} /\ env.import_ok))

\* with the gate on, an authenticated session generated a model
C6_Witness ==
    /\ env.ENABLE_AUTH
    /\ "password_correct" \in DOMAIN session_state
    /\ last.action = "generate"
    /\ Succeeded

(***************************************************************************)
(* Properties of the adapter (AdapterSpec)                                  *)
(***************************************************************************)
\* C11: every response of a constructed adapter comes from the vendor call
\* of the branch its provider selects, one of the four, never from the
\* fallback, and that call was made with temperature 0.3 and at most 2000
\* tokens
C11_VendorCallWithFixedParameters ==
    ai_response # None
        => /\ adapter[1].provider \in Providers
           /\ ai_response[1].call # None
           /\ ai_response[1].call[1].provider = adapter[1].provider
           /\ ai_response[1].call[1].temperature = Some("0.3")
           /\ ai_response[1].call[1].max_tokens = Some(2000)

(***************************************************************************)
(* Properties of the temporary files (Spec)                                 *)
(***************************************************************************)
\* C12: after every run none of the temporary files the run created (the
\* uploaded log, the .bpmn file of visualize_bpmn, the .png of the diagram)
\* is still on disk
C12_NoTemporaryFileOutlivesRun == temp_files = {}


(***************************************************************************)
(* Properties of the failed actions (Spec)                                  *)
(***************************************************************************)
\* the run that ends in the next state pressed a generation button and its
\* handler caught an exception
FailedAction ==
    last'.action \in {"generate", "improve", "refine"} /\ last'.raised

\* the file uploaded to the run that ends in the next state
UploadOf(record) == Tail(record.input)

\* C13 as stated: a generate, improve or refine run whose handler catches an
\* exception leaves the current model, the adapter and the feedback history
\* as they were before the run
C13_FailedActionLeavesSessionUnchanged ==
    [][FailedAction
          => /\ session_state'["current_bpmn"] = session_state["current_bpmn"]
             /\ session_state'["model_gen"] = session_state["model_gen"]
             /\ session_state'["feedback_history"] = session_state["feedback_history"]]_vars

\* C13 amended: such a run leaves the adapter and the feedback history as
\* they were; it leaves the current model as it was too, except that a failed
\* improve run whose upload could be decoded has already replaced the
\* current model by the uploaded text
C13_FailedActionKeepsAdapterAndHistory ==
    [][FailedAction
          => /\ session_state'["model_gen"] = session_state["model_gen"]
             /\ session_state'["feedback_history"] = session_state["feedback_history"]
             /\ session_state'["current_bpmn"] =
                    IF last'.action = "improve" /\ Decodes(UploadOf(last'))
                    THEN Some(UploadOf(last'))
                    ELSE session_state["current_bpmn"]]_vars

\* a failed improve run in a session that had an adapter and a history: the
\* upload is the current model, the adapter and the history are still there
C13_Witness ==
    /\ last.action = "improve"
    /\ last.raised
    /\ session_state["current_bpmn"] = Some(UploadOf(last))
    /\ session_state["model_gen"] # None
    /\ session_state["feedback_history"] # <<>>


(***************************************************************************)
(* Cleaning a cleaned text (CleanSpec)                                      *)
(***************************************************************************)
\* the declaration line without the newline that ends it
BareDeclaration == SubSeq(XmlDeclaration, 1, Len(XmlDeclaration) - 1)

\* C14 as stated: cleaning the cleaned text gives the cleaned text again, for
\* every reply, the empty one included
C14_CleaningIsIdempotent ==
    recleaned # None => recleaned[1] = cleaned[1]

\* C14 amended: cleaning the cleaned text gives the cleaned text again when
\* something is left of the reply after its fences and whitespace are
\* removed; when nothing is left (the empty reply of a failed vendor call)
\* the cleaned text is the declaration and its newline, and cleaning it once
\* more removes the newline
C14_CleaningIsIdempotentOnContent ==
    recleaned # None
        => recleaned[1] = IF cleaned[1] = XmlDeclaration
                          THEN BareDeclaration
                          ELSE cleaned[1]

\* a fenced reply was cleaned to the declaration and its contents, and the
\* second cleaning returned the same text
C14_Witness ==
    /\ recleaned # None
    /\ xml_text = <<Fence, "xml", " ", "a", Fence>>
    /\ cleaned[1] = XmlDeclaration \o <<"a">>
    /\ recleaned[1] = cleaned[1]

====
